---- MODULE Spec2Model ----
(***************************************************************************)
(* Shallow-water solver of swe.py: the parameter section, the allocation   *)
(* of the field buffers, and the main time loop (momentum predictor,       *)
(* Coriolis corrector, wall boundary conditions, upwind depths and fluxes, *)
(* continuity update, buffer update, step counter and sampling).           *)
(*                                                                         *)
(* Field values are exact rationals <<n, d>> in lowest terms with d > 0,   *)
(* so every arithmetic statement of the script is evaluated as written,    *)
(* without rounding.  numpy arrays are objects on a heap: a name holds the *)
(* identity of an array, a slice assignment writes into the array the name *)
(* refers to, and np.copy allocates a new array.                           *)
(***************************************************************************)
EXTENDS Integers, Sequences, FiniteSets, TLC

VARIABLES
  \* parameters of the parameter section (lines 33-53, 135-136)
  N_x, N_y, L_x, L_y, g, H, courant,
  use_coriolis, use_source, use_sink,
  max_time_step, anim_interval, sample_interval,
  \* program state
  pc, time_step, heap, ref,
  h_e, h_w, h_n, h_s, uhwe, vhns,
  hm_sample, ts_sample, t_sample,
  eta_list, u_list, v_list, printed,
  \* history: the initial fields, the integrator steps completed, and the
  \* number of completed steps behind each recorded sample
  u_0, v_0, eta_0, applied, k_sample, k_anim

cfgvars == <<N_x, N_y, L_x, L_y, g, H, courant, use_coriolis, use_source,
             use_sink, max_time_step, anim_interval, sample_interval>>

scratch == <<h_e, h_w, h_n, h_s, uhwe, vhns>>

samples == <<hm_sample, ts_sample, t_sample, eta_list, u_list, v_list,
             printed, k_sample, k_anim>>

initial == <<u_0, v_0, eta_0>>

vars == <<cfgvars, pc, time_step, heap, ref, scratch, samples, initial, applied>>

(***************************************************************************)
(* Bounds of the model.                                                    *)
(***************************************************************************)
MaxTimeStep == 3
MaxInterval == 2
MaxMagnitude == 800

(***************************************************************************)
(* Exact rational arithmetic.                                              *)
(***************************************************************************)
Abs(n) == IF n < 0 THEN -n ELSE n

RECURSIVE GCD(_, _)
GCD(a, b) == IF b = 0 THEN a ELSE GCD(b, a % b)

Rat(n, d) ==
  LET s == IF d < 0 THEN -1 ELSE 1
      c == GCD(Abs(n), Abs(d))
  IN  <<(s * n) \div c, (s * d) \div c>>

Zero == <<0, 1>>
One == <<1, 1>>
FromInt(n) == <<n, 1>>

RNeg(a) == <<-a[1], a[2]>>

RAdd(a, b) ==
  LET c == GCD(a[2], b[2])
  IN  Rat(a[1] * (b[2] \div c) + b[1] * (a[2] \div c), (a[2] \div c) * b[2])

RSub(a, b) == RAdd(a, RNeg(b))

RMul(a, b) ==
  LET c1 == GCD(Abs(a[1]), b[2])
      c2 == GCD(Abs(b[1]), a[2])
  IN  IF a[1] = 0 \/ b[1] = 0 THEN Zero
      ELSE <<(a[1] \div c1) * (b[1] \div c2), (a[2] \div c2) * (b[2] \div c1)>>

RInv(a) == IF a[1] < 0 THEN <<-a[2], -a[1]>> ELSE <<a[2], a[1]>>

RDiv(a, b) == RMul(a, RInv(b))

RGt0(a) == a[1] > 0

RLe(a, b) == ~RGt0(RSub(a, b))

RMin(a, b) == IF RLe(a, b) THEN a ELSE b

\* np.sqrt on the rationals that have a rational square root
ISqrt(n) == CHOOSE r \in 0..n : r * r = n
RSqrt(a) == <<ISqrt(a[1]), ISqrt(a[2])>>
IsSquare(a) == /\ a[1] > 0
               /\ \E r \in 1..a[1] : r * r = a[1]
               /\ \E r \in 1..a[2] : r * r = a[2]

(***************************************************************************)
(* Derived parameters (lines 49-51, 63).                                   *)
(***************************************************************************)
I == 0..(N_x - 1)
J == 0..(N_y - 1)

dx == RDiv(L_x, FromInt(N_x - 1))
dy == RDiv(L_y, FromInt(N_y - 1))
dt == RDiv(RMul(courant, RMin(dx, dy)), RSqrt(RMul(g, H)))


\* line 63: f = (f_0 * sin(latitude)) * ones(len(y)).  f_0 * sin(latitude) is
\* irrational (about 1.03E-4); CoriolisValue is the rational taken for it.
CoriolisValue == <<1, 2>>
f == [j \in J |-> CoriolisValue]

\* np.zeros((N_x, N_y))
ZeroArray == [i \in I |-> [j \in J |-> Zero]]

\* lines 70-71: source = 0.0001 * exp(-(distance to the corner (L_x/2, L_y/2))^2
\* / (2 * 1E+5^2)).  The exponential is irrational; Gauss is a rational with
\* the same shape: 1 at the corner x = L_x/2, y = L_y/2, which is the grid
\* point (N_x-1, N_y-1), positive, and halved with each grid step away from it.
RECURSIVE Pow2(_)
Pow2(n) == IF n = 0 THEN 1 ELSE 2 * Pow2(n - 1)

Gauss(i, j) ==
  LET di == N_x - 1 - i
      dj == N_y - 1 - j
  IN  <<1, Pow2(IF di > dj THEN di ELSE dj)>>

source == [i \in I |-> [j \in J |-> RMul(<<1, 10000>>, Gauss(i, j))]]

RECURSIVE SumSeq(_)
SumSeq(s) == IF s = <<>> THEN Zero ELSE RAdd(s[1], SumSeq(Tail(s)))

\* np.sum / ndarray.sum over a whole array
ArraySum(a) ==
  SumSeq([k \in 1..(N_x * N_y) |-> a[(k - 1) \div N_y][(k - 1) % N_y]])

\* line 75: sink = ones * source.sum() / (N_x * N_y)
sink == [i \in I |-> [j \in J |-> RDiv(ArraySum(source), FromInt(N_x * N_y))]]

(***************************************************************************)
(* Inputs: the values the parameter section and the initial conditions are *)
(* given.                                                                  *)
(***************************************************************************)
GridSizes == {<<3, 2>>, <<2, 3>>, <<4, 4>>}
DomainLengths == {FromInt(3)}
\* <<g, H, Courant number>>: line 51 uses the Courant number 0.1; 2 gives the
\* time step twice the CFL limit
Parameters == {<<FromInt(1), FromInt(1), <<1, 10>> >>,
               <<FromInt(10), FromInt(10), <<1, 10>> >>,
               <<FromInt(1), FromInt(1), <<2, 1>> >>}

\* an initial field: value peak at grid point at, value base elsewhere
Shape(at, peak, base) == [at |-> at, peak |-> peak, base |-> base]
Field(s) == [i \in I |-> [j \in J |-> IF <<i, j>> = s.at THEN s.peak ELSE s.base]]

\* <<u, v, eta>>: rest; a bump of height 1 at (1,1) on still water; a dip at
\* (0,0) under a uniform flow; the bump under a uniform flow
InitialConditions ==
  {<<Shape(<<0, 0>>, Zero, Zero), Shape(<<0, 0>>, Zero, Zero),
     Shape(<<0, 0>>, Zero, Zero)>>,
   <<Shape(<<0, 0>>, Zero, Zero), Shape(<<0, 0>>, Zero, Zero),
     Shape(<<1, 1>>, One, Zero)>>,
   <<Shape(<<0, 0>>, One, One), Shape(<<0, 0>>, <<-1, 1>>, <<-1, 1>>),
     Shape(<<0, 0>>, <<-1, 2>>, <<1, 2>>)>>,
   <<Shape(<<0, 0>>, One, One), Shape(<<0, 0>>, <<-1, 1>>, <<-1, 1>>),
     Shape(<<1, 1>>, One, Zero)>>}

Names == {"u_n", "u_np1", "v_n", "v_np1", "eta_n", "eta_np1"}

Init ==
  /\ \E gs \in GridSizes : N_x = gs[1] /\ N_y = gs[2]
  /\ L_x \in DomainLengths
  /\ L_y \in DomainLengths
  /\ \E p \in Parameters : g = p[1] /\ H = p[2] /\ courant = p[3]
  /\ use_coriolis \in BOOLEAN
  /\ use_source \in BOOLEAN
  /\ use_sink \in BOOLEAN
  /\ max_time_step \in 1..MaxTimeStep
  /\ anim_interval \in 1..MaxInterval
  /\ sample_interval \in 1..MaxInterval
  /\ pc = "setup"
  /\ time_step = 1
  /\ heap = <<>>
  /\ ref = [n \in Names |-> 0]
  /\ h_e = <<>> /\ h_w = <<>> /\ h_n = <<>> /\ h_s = <<>>
  /\ uhwe = <<>> /\ vhns = <<>>
  /\ hm_sample = <<>> /\ ts_sample = <<>> /\ t_sample = <<>>
  /\ eta_list = <<>> /\ u_list = <<>> /\ v_list = <<>> /\ printed = <<>>
  /\ u_0 = <<>> /\ v_0 = <<>> /\ eta_0 = <<>>
  /\ applied = 0 /\ k_sample = <<>> /\ k_anim = <<>>

(***************************************************************************)
(* Lines 68-137: forcing arrays, allocation, initial conditions, initial   *)
(* samples.                                                                *)
(***************************************************************************)
\* lines 106-107
EnforceInitialU(a) == [i \in I |-> [j \in J |-> IF i = N_x - 1 THEN Zero ELSE a[i][j]]]
EnforceInitialV(a) == [i \in I |-> [j \in J |-> IF j = N_y - 1 THEN Zero ELSE a[i][j]]]

\* int(N / 2)
Half(n) == n \div 2

Setup ==
  /\ pc = "setup"
  /\ IF use_sink /\ ~use_source
     THEN \* line 75 reads source, which line 70 never defined
          /\ pc' = "NameError"
          /\ UNCHANGED <<cfgvars, time_step, heap, ref, scratch, samples,
                         initial, applied>>
     ELSE \E ic \in InitialConditions :
          /\ heap' = <<EnforceInitialU(Field(ic[1])), ZeroArray,
                       EnforceInitialV(Field(ic[2])), ZeroArray,
                       ZeroArray, ZeroArray, Field(ic[3])>>
          /\ ref' = [u_n |-> 1, u_np1 |-> 2, v_n |-> 3, v_np1 |-> 4,
                     eta_n |-> 7, eta_np1 |-> 6]
          /\ h_e' = ZeroArray /\ h_w' = ZeroArray
          /\ h_n' = ZeroArray /\ h_s' = ZeroArray
          /\ uhwe' = ZeroArray /\ vhns' = ZeroArray
          /\ hm_sample' = << <<7, Half(N_y)>> >>
          /\ ts_sample' = <<Field(ic[3])[Half(N_x)][Half(N_y)]>>
          /\ t_sample' = <<Zero>>
          /\ k_sample' = <<0>>
          /\ u_0' = EnforceInitialU(Field(ic[1]))
          /\ v_0' = EnforceInitialV(Field(ic[2]))
          /\ eta_0' = Field(ic[3])
          /\ pc' = "loop"
          /\ UNCHANGED <<cfgvars, time_step, eta_list, u_list, v_list,
                         printed, k_anim, applied>>

(***************************************************************************)
(* Main time loop, lines 144-216.  Each statement is a function from the   *)
(* heap before it to the heap after it; an action applies the statements   *)
(* of its block in the order of the script.                                *)
(***************************************************************************)
At(h, name) == h[ref[name]]

\* the gradient of the total depth with H added on one side only
Gradient_Depth(coef, there, here) == RMul(coef, RSub(RAdd(there, H), here))

\* g * dt / dx * (east - here), the pressure-gradient term of lines 150-151
Gradient(coef, there, here) == RMul(coef, RSub(there, here))

\* line 150 with the difference taken the other way round
PredictU_Reversed(h) ==
  [h EXCEPT ![ref.u_np1] =
     [i \in I |-> [j \in J |->
        IF i < N_x - 1
        THEN RSub(At(h, "u_n")[i][j],
                  RMul(RDiv(RMul(g, dt), dx),
                       RSub(At(h, "eta_n")[i][j], At(h, "eta_n")[i + 1][j])))
        ELSE At(h, "u_np1")[i][j]]]]

\* line 150: u_np1[:-1, :] = u_n[:-1, :] - g * dt / dx * (eta_n[1:, :] - eta_n[:-1, :])
PredictU(h) ==
  [h EXCEPT ![ref.u_np1] =
     [i \in I |-> [j \in J |->
        IF i < N_x - 1
        THEN RSub(At(h, "u_n")[i][j],
                  Gradient(RDiv(RMul(g, dt), dx),
                           At(h, "eta_n")[i + 1][j], At(h, "eta_n")[i][j]))
        ELSE At(h, "u_np1")[i][j]]]]

\* line 151: v_np1[:, :-1] = v_n[:, :-1] - g * dt / dy * (eta_n[:, 1:] - eta_n[:, :-1])
PredictV(h) ==
  [h EXCEPT ![ref.v_np1] =
     [i \in I |-> [j \in J |->
        IF j < N_y - 1
        THEN RSub(At(h, "v_n")[i][j],
                  Gradient(RDiv(RMul(g, dt), dy),
                           At(h, "eta_n")[i][j + 1], At(h, "eta_n")[i][j]))
        ELSE At(h, "v_np1")[i][j]]]]

\* line 155: u_np1[:, :] = u_np1[:, :] + f * v_n[:, :]   (f broadcasts along j)
CorrectU(h) ==
  [h EXCEPT ![ref.u_np1] =
     [i \in I |-> [j \in J |->
        RAdd(At(h, "u_np1")[i][j], RMul(f[j], At(h, "v_n")[i][j]))]]]

\* line 156 reading the u that line 155 has just corrected
CorrectV_Predicted(h) ==
  [h EXCEPT ![ref.v_np1] =
     [i \in I |-> [j \in J |->
        RSub(At(h, "v_np1")[i][j], RMul(f[j], At(h, "u_np1")[i][j]))]]]

\* line 156: v_np1[:, :] = v_np1[:, :] - f * u_n[:, :]
CorrectV(h) ==
  [h EXCEPT ![ref.v_np1] =
     [i \in I |-> [j \in J |->
        RSub(At(h, "v_np1")[i][j], RMul(f[j], At(h, "u_n")[i][j]))]]]

\* line 158 left out
NorthernBC_Skipped(h) == h

\* line 158: v_np1[:, -1] = 0.0
NorthernBC(h) ==
  [h EXCEPT ![ref.v_np1] =
     [i \in I |-> [j \in J |-> IF j = N_y - 1 THEN Zero ELSE At(h, "v_np1")[i][j]]]]

\* line 159 left out
EasternBC_Open(h) == h

\* line 159: u_np1[-1, :] = 0.0
EasternBC(h) ==
  [h EXCEPT ![ref.u_np1] =
     [i \in I |-> [j \in J |-> IF i = N_x - 1 THEN Zero ELSE At(h, "u_np1")[i][j]]]]

\* np.where with >= in place of >
Upwind_Ge(vel, here, there) == IF vel[1] >= 0 THEN RAdd(here, H) ELSE RAdd(there, H)

\* np.where(vel > 0, here + H, there + H), lines 166, 170, 172, 176
Upwind(vel, here, there) == IF RGt0(vel) THEN RAdd(here, H) ELSE RAdd(there, H)

\* lines 166-167
EastDepth(h) ==
  [i \in I |-> [j \in J |->
     IF i < N_x - 1
     THEN Upwind(At(h, "u_np1")[i][j], At(h, "eta_n")[i][j], At(h, "eta_n")[i + 1][j])
     ELSE RAdd(At(h, "eta_n")[i][j], H)]]

\* lines 169-170
WestDepth(h) ==
  [i \in I |-> [j \in J |->
     IF i = 0
     THEN RAdd(At(h, "eta_n")[0][j], H)
     ELSE Upwind(At(h, "u_np1")[i - 1][j], At(h, "eta_n")[i - 1][j], At(h, "eta_n")[i][j])]]

\* lines 172-173
NorthDepth(h) ==
  [i \in I |-> [j \in J |->
     IF j < N_y - 1
     THEN Upwind(At(h, "v_np1")[i][j], At(h, "eta_n")[i][j], At(h, "eta_n")[i][j + 1])
     ELSE RAdd(At(h, "eta_n")[i][j], H)]]

\* lines 175-176
SouthDepth(h) ==
  [i \in I |-> [j \in J |->
     IF j = 0
     THEN RAdd(At(h, "eta_n")[i][0], H)
     ELSE Upwind(At(h, "v_np1")[i][j - 1], At(h, "eta_n")[i][j - 1], At(h, "eta_n")[i][j])]]

\* lines 178-179
FluxX(h, he, hw) ==
  [i \in I |-> [j \in J |->
     IF i = 0
     THEN RMul(At(h, "u_np1")[0][j], he[0][j])
     ELSE RSub(RMul(At(h, "u_np1")[i][j], he[i][j]),
               RMul(At(h, "u_np1")[i - 1][j], hw[i][j]))]]

\* lines 181-182
FluxY(h, hn, hs) ==
  [i \in I |-> [j \in J |->
     IF j = 0
     THEN RMul(At(h, "v_np1")[i][0], hn[i][0])
     ELSE RSub(RMul(At(h, "v_np1")[i][j], hn[i][j]),
               RMul(At(h, "v_np1")[i][j - 1], hs[i][j]))]]

\* line 186: eta_np1[:, :] = eta_n[:, :] - dt * (uhwe[:, :] / dx + vhns[:, :] / dy)
ContinuityUpdate(h) ==
  [h EXCEPT ![ref.eta_np1] =
     [i \in I |-> [j \in J |->
        RSub(At(h, "eta_n")[i][j],
             RMul(dt, RAdd(RDiv(uhwe[i][j], dx), RDiv(vhns[i][j], dy))))]]]

\* line 190: eta_np1[:, :] += dt * source
AddSource(h) ==
  [h EXCEPT ![ref.eta_np1] =
     [i \in I |-> [j \in J |->
        RAdd(At(h, "eta_np1")[i][j], RMul(dt, source[i][j]))]]]

\* line 194: eta_np1[:, :] -= dt * sink
SubtractSink(h) ==
  [h EXCEPT ![ref.eta_np1] =
     [i \in I |-> [j \in J |->
        RSub(At(h, "eta_np1")[i][j], RMul(dt, sink[i][j]))]]]

\* plain assignment in place of np.copy: the name is bound to the array itself
np_copy_alias(fresh, src) == src

\* np.copy(src): the identity of the array the result is, given the next free
\* identity and the identity of the array copied
np_copy(fresh, src) == fresh

\* every number in the arrays the next step reads is small enough for the
\* step's arithmetic to stay within TLC's 32-bit integers
Magnitude(a) == IF Abs(a[1]) > a[2] THEN Abs(a[1]) ELSE a[2]
Representable ==
  \A n \in {"u_n", "v_n", "eta_n"} : \A i \in I, j \in J :
     Magnitude(At(heap, n)[i][j]) <= MaxMagnitude

\* line 144, condition true
EnterStep ==
  /\ pc = "loop"
  /\ time_step < max_time_step
  /\ Representable
  /\ pc' = "predictor"
  /\ UNCHANGED <<cfgvars, time_step, heap, ref, scratch, samples, initial, applied>>

\* line 144, condition false; lines 219-235
ExitLoop ==
  /\ pc = "loop"
  /\ ~(time_step < max_time_step)
  /\ pc' = "done"
  /\ UNCHANGED <<cfgvars, time_step, heap, ref, scratch, samples, initial, applied>>

\* lines 150-151
Predictor ==
  /\ pc = "predictor"
  /\ heap' = PredictV(PredictU(heap))
  /\ pc' = "coriolis"
  /\ UNCHANGED <<cfgvars, time_step, ref, scratch, samples, initial, applied>>

\* lines 154-156
Coriolis ==
  /\ pc = "coriolis"
  /\ heap' = IF use_coriolis THEN CorrectV(CorrectU(heap)) ELSE heap
  /\ pc' = "boundary"
  /\ UNCHANGED <<cfgvars, time_step, ref, scratch, samples, initial, applied>>

\* lines 158-159
Boundary ==
  /\ pc = "boundary"
  /\ heap' = EasternBC(NorthernBC(heap))
  /\ pc' = "upwind"
  /\ UNCHANGED <<cfgvars, time_step, ref, scratch, samples, initial, applied>>

\* lines 166-182
UpwindFlux ==
  /\ pc = "upwind"
  /\ h_e' = EastDepth(heap)
  /\ h_w' = WestDepth(heap)
  /\ h_n' = NorthDepth(heap)
  /\ h_s' = SouthDepth(heap)
  /\ uhwe' = FluxX(heap, h_e', h_w')
  /\ vhns' = FluxY(heap, h_n', h_s')
  /\ pc' = "continuity"
  /\ UNCHANGED <<cfgvars, time_step, heap, ref, samples, initial, applied>>

\* lines 186-194
Continuity ==
  /\ pc = "continuity"
  /\ LET h1 == ContinuityUpdate(heap)
         h2 == IF use_source THEN AddSource(h1) ELSE h1
         h3 == IF use_sink THEN SubtractSink(h2) ELSE h2
     IN  heap' = h3
  /\ pc' = "update"
  /\ UNCHANGED <<cfgvars, time_step, ref, scratch, samples, initial, applied>>

\* lines 197-201
Update ==
  /\ pc = "update"
  /\ LET n == Len(heap)
         h1 == Append(heap, At(heap, "u_np1"))
         h2 == Append(h1, At(heap, "v_np1"))
         h3 == Append(h2, At(heap, "eta_np1"))
     IN  /\ heap' = h3
         /\ ref' = [ref EXCEPT !.u_n = np_copy(n + 1, ref.u_np1),
                               !.v_n = np_copy(n + 2, ref.v_np1),
                               !.eta_n = np_copy(n + 3, ref.eta_np1)]
  /\ time_step' = time_step + 1
  /\ applied' = applied + 1
  /\ pc' = "sample"
  /\ UNCHANGED <<cfgvars, scratch, samples, initial>>

\* the simulated time the script reports, time_step * dt (lines 207, 211)
ReportedTime(step) == RMul(FromInt(step), dt)

\* lines 204-216
Sample ==
  /\ pc = "sample"
  /\ IF time_step % sample_interval = 0
     THEN /\ hm_sample' = Append(hm_sample, <<ref.eta_n, Half(N_y)>>)
          /\ ts_sample' = Append(ts_sample, At(heap, "eta_n")[Half(N_x)][Half(N_y)])
          /\ t_sample' = Append(t_sample, ReportedTime(time_step))
          /\ k_sample' = Append(k_sample, applied)
     ELSE UNCHANGED <<hm_sample, ts_sample, t_sample, k_sample>>
  /\ IF time_step % anim_interval = 0
     THEN /\ printed' = Append(printed,
                          [Time |-> RDiv(ReportedTime(time_step), FromInt(3600)),
                           Step |-> time_step,
                           Mass |-> ArraySum(At(heap, "eta_n"))])
          /\ u_list' = Append(u_list, ref.u_n)
          /\ v_list' = Append(v_list, ref.v_n)
          /\ eta_list' = Append(eta_list, ref.eta_n)
          /\ k_anim' = Append(k_anim, applied)
     ELSE UNCHANGED <<printed, u_list, v_list, eta_list, k_anim>>
  /\ pc' = "loop"
  /\ UNCHANGED <<cfgvars, time_step, heap, ref, scratch, initial, applied>>

Next ==
  \/ Setup
  \/ EnterStep
  \/ ExitLoop
  \/ Predictor
  \/ Coriolis
  \/ Boundary
  \/ UpwindFlux
  \/ Continuity
  \/ Update
  \/ Sample

Spec == Init /\ [][Next]_vars

(***************************************************************************)
(* Properties.                                                             *)
(***************************************************************************)
Allocated == pc \notin {"setup", "NameError"}

\* the step has just written its velocities: u_np1, v_np1 are the new
\* velocities (no later statement of the step writes them) and u_n, v_n, eta_n
\* still the fields the step started from
VelocitiesDone == pc = "upwind"

\* the step has just computed its depths and fluxes
FluxesDone == pc = "continuity"

ColumnSum(a, j) == SumSeq([k \in 1..N_x |-> a[k - 1][j]])
RowSum(a, i) == SumSeq([k \in 1..N_y |-> a[i][k - 1]])

Unforced == ~use_source /\ ~use_sink

\* C1: without source and sink the sum of eta over the grid is, after any
\* number of steps, the sum of the initial eta; in every step the x-flux
\* differences of each column of cells along x and the y-flux differences of
\* each row along y add up to zero.
MassConserved ==
  /\ FluxesDone =>
       /\ \A j \in J : ColumnSum(uhwe, j) = Zero
       /\ \A i \in I : RowSum(vhns, i) = Zero
  /\ (Unforced /\ pc = "update") =>
       ArraySum(At(heap, "eta_np1")) = ArraySum(eta_0)
  /\ (Unforced /\ pc \in {"sample", "done"}) =>
       ArraySum(At(heap, "eta_n")) = ArraySum(eta_0)

MassConservedWitness ==
  /\ pc = "loop" /\ applied = 2 /\ Unforced /\ use_coriolis
  /\ At(heap, "eta_n") # eta_0
  /\ \E i \in I, j \in J : uhwe[i][j] # Zero
  /\ \E i \in I, j \in J : vhns[i][j] # Zero

\* C2: after every completed step the current u is zero on the last row
\* i = N_x-1 and the current v is zero on the last column j = N_y-1.
WallsClosed ==
  applied >= 1 =>
    /\ \A j \in J : At(heap, "u_n")[N_x - 1][j] = Zero
    /\ \A i \in I : At(heap, "v_n")[i][N_y - 1] = Zero

\* a second step with Coriolis whose corrector adds a non-zero f * v_n to the
\* last row of u_np1 and a non-zero f * u_n to the last column of v_np1
WallsClosedWitness ==
  /\ pc = "loop" /\ applied = 2 /\ use_coriolis
  /\ \E j \in J : At(heap, "v_n")[N_x - 1][j] # Zero
  /\ \E i \in I : At(heap, "u_n")[i][N_y - 1] # Zero

\* C3: from u = v = eta = 0 without source and sink, u, v and eta are zero in
\* every cell after any number of steps, with or without Coriolis.
ZeroStaysZero ==
  (Allocated /\ Unforced /\ u_0 = ZeroArray /\ v_0 = ZeroArray /\ eta_0 = ZeroArray)
    => /\ At(heap, "u_n") = ZeroArray
       /\ At(heap, "v_n") = ZeroArray
       /\ At(heap, "eta_n") = ZeroArray

ZeroStaysZeroWitness ==
  /\ pc = "done" /\ applied = 2 /\ Unforced /\ use_coriolis
  /\ u_0 = ZeroArray /\ v_0 = ZeroArray /\ eta_0 = ZeroArray

\* C4: from the momentum predictor to the end of the continuity update the
\* arrays u_n, v_n, eta_n are not written: the only arrays of the heap that
\* change are u_np1, v_np1 and eta_np1, and the current and the next buffer of
\* a field are never the same array.
InStep == pc \in {"predictor", "coriolis", "boundary", "upwind", "continuity"}

BuffersDistinct ==
  Allocated => /\ ref.u_n # ref.u_np1
               /\ ref.v_n # ref.v_np1
               /\ ref.eta_n # ref.eta_np1

CurrentUntouched ==
  InStep =>
    /\ ref' = ref
    /\ Len(heap') = Len(heap)
    /\ \A id \in 1..Len(heap) :
         id \notin {ref.u_np1, ref.v_np1, ref.eta_np1} => heap'[id] = heap[id]
    /\ At(heap', "u_n") = At(heap, "u_n")
    /\ At(heap', "v_n") = At(heap, "v_n")
    /\ At(heap', "eta_n") = At(heap, "eta_n")

StepFrame == [](BuffersDistinct) /\ [][CurrentUntouched]_vars

StepFrameWitness ==
  /\ pc = "update" /\ applied = 1
  /\ At(heap, "u_np1") # At(heap, "u_n")
  /\ At(heap, "v_np1") # At(heap, "v_n")
  /\ At(heap, "eta_np1") # At(heap, "eta_n")

\* C5: without Coriolis the new velocities are
\*   u_np1[i,j] = u_n[i,j] - g*dt/dx*(eta_n[i+1,j] - eta_n[i,j]),  i <= N_x-2,
\*   v_np1[i,j] = v_n[i,j] - g*dt/dy*(eta_n[i,j+1] - eta_n[i,j]),  j <= N_y-2;
\* on the 4x4 grid with dx = dy = 1, g = 10, eta = 1 at (1,1) and 0 elsewhere and
\* u = v = 0, the first step gives u_np1[0,1] = v_np1[1,0] = -10*dt.
Scenario4x4 ==
  /\ N_x = 4 /\ N_y = 4 /\ dx = One /\ dy = One /\ g = FromInt(10)
  /\ eta_0 = [i \in I |-> [j \in J |-> IF i = 1 /\ j = 1 THEN One ELSE Zero]]
  /\ u_0 = ZeroArray /\ v_0 = ZeroArray
  /\ ~use_coriolis /\ applied = 0

PredictorLaw ==
  (VelocitiesDone /\ ~use_coriolis) =>
    /\ \A i \in 0..(N_x - 2), j \in J :
         At(heap, "u_np1")[i][j] =
           RSub(At(heap, "u_n")[i][j],
                RMul(RDiv(RMul(g, dt), dx),
                     RSub(At(heap, "eta_n")[i + 1][j], At(heap, "eta_n")[i][j])))
    /\ \A i \in I, j \in 0..(N_y - 2) :
         At(heap, "v_np1")[i][j] =
           RSub(At(heap, "v_n")[i][j],
                RMul(RDiv(RMul(g, dt), dy),
                     RSub(At(heap, "eta_n")[i][j + 1], At(heap, "eta_n")[i][j])))
    /\ Scenario4x4 =>
         /\ At(heap, "u_np1")[0][1] = RNeg(RMul(FromInt(10), dt))
         /\ At(heap, "v_np1")[1][0] = RNeg(RMul(FromInt(10), dt))

PredictorLawWitness ==
  /\ pc = "upwind" /\ Scenario4x4
  /\ At(heap, "u_np1")[0][1] = <<-1, 10>>

\* C6: a configuration whose time step violates the CFL bound
\* dt*sqrt(g*H) > min(dx,dy) is rejected at setup: no integrator step runs.
CFLViolated == RGt0(RSub(RMul(dt, RSqrt(RMul(g, H))), RMin(dx, dy)))

CFLRejected ==
  CFLViolated => (applied = 0 /\ pc \in {"setup", "NameError"})

\* C7: when the loop has stopped, the integrator has been applied exactly
\* max_time_step times.
AllStepsApplied == pc = "done" => applied = max_time_step

\* C8: the time recorded with every sample and every animation snapshot is
\* k * dt, k being the number of integrator steps applied to the sampled state.
SampleTimes ==
  /\ \A n \in 1..Len(t_sample) : t_sample[n] = RMul(FromInt(k_sample[n]), dt)
  /\ \A n \in 1..Len(printed) :
       RMul(printed[n].Time, FromInt(3600)) = RMul(FromInt(k_anim[n]), dt)

\* C9: with Coriolis the new velocities are
\*   u_np1[i,j] = u_n[i,j] - g*dt/dx*(eta_n[i+1,j] - eta_n[i,j]) + f[j]*v_n[i,j],
\*   v_np1[i,j] = v_n[i,j] - g*dt/dy*(eta_n[i,j+1] - eta_n[i,j]) - f[j]*u_n[i,j],
\* for i <= N_x-2 and j <= N_y-2 respectively: the corrector reads the
\* velocities of the step's start, and f is indexed by j.
CorrectorLaw ==
  (VelocitiesDone /\ use_coriolis) =>
    /\ DOMAIN f = J
    /\ \A i \in 0..(N_x - 2), j \in J :
         At(heap, "u_np1")[i][j] =
           RAdd(RSub(At(heap, "u_n")[i][j],
                     RMul(RDiv(RMul(g, dt), dx),
                          RSub(At(heap, "eta_n")[i + 1][j], At(heap, "eta_n")[i][j]))),
                RMul(f[j], At(heap, "v_n")[i][j]))
    /\ \A i \in I, j \in 0..(N_y - 2) :
         At(heap, "v_np1")[i][j] =
           RSub(RSub(At(heap, "v_n")[i][j],
                     RMul(RDiv(RMul(g, dt), dy),
                          RSub(At(heap, "eta_n")[i][j + 1], At(heap, "eta_n")[i][j]))),
                RMul(f[j], At(heap, "u_n")[i][j]))

\* a step in which the corrected u differs from the u of the step's start, so
\* that reading one for the other changes v
CorrectorLawWitness ==
  /\ pc = "upwind" /\ use_coriolis /\ applied = 1
  /\ \E i \in I, j \in 0..(N_y - 2) :
       /\ At(heap, "u_np1")[i][j] # At(heap, "u_n")[i][j]
       /\ At(heap, "v_n")[i][j] # Zero

\* C10: the depth at the face between (i,j) and (i+1,j), i <= N_x-2, is
\* eta_n[i,j] + H when the new u_np1[i,j] > 0 and eta_n[i+1,j] + H otherwise,
\* and it is both h_e[i,j] and h_w[i+1,j]; likewise in y with v_np1, h_n, h_s.
DonorCell ==
  FluxesDone =>
    /\ \A i \in 0..(N_x - 2), j \in J :
         /\ h_e[i][j] = IF At(heap, "u_np1")[i][j][1] > 0
                        THEN RAdd(At(heap, "eta_n")[i][j], H)
                        ELSE RAdd(At(heap, "eta_n")[i + 1][j], H)
         /\ h_w[i + 1][j] = h_e[i][j]
    /\ \A i \in I, j \in 0..(N_y - 2) :
         /\ h_n[i][j] = IF At(heap, "v_np1")[i][j][1] > 0
                        THEN RAdd(At(heap, "eta_n")[i][j], H)
                        ELSE RAdd(At(heap, "eta_n")[i][j + 1], H)
         /\ h_s[i][j + 1] = h_n[i][j]

\* a face with zero velocity, a face with positive velocity and a face with
\* negative velocity, each between cells of different depth
DonorCellWitness ==
  /\ pc = "continuity"
  /\ \E i \in 0..(N_x - 2), j \in J :
       /\ At(heap, "u_np1")[i][j] = Zero
       /\ At(heap, "eta_n")[i][j] # At(heap, "eta_n")[i + 1][j]
  /\ \E i \in I, j \in 0..(N_y - 2) :
       /\ At(heap, "v_np1")[i][j][1] > 0
       /\ At(heap, "eta_n")[i][j] # At(heap, "eta_n")[i][j + 1]
  /\ \E i \in I, j \in 0..(N_y - 2) :
       /\ At(heap, "v_np1")[i][j][1] < 0
       /\ At(heap, "eta_n")[i][j] # At(heap, "eta_n")[i][j + 1]

====
